---- MODULE Spec2Model ----
(***************************************************************************)
(* Model of src/app.py: the product planning Dash application.            *)
(*                                                                         *)
(* The browser holds the layout (dropdown values, the rendered quantity    *)
(* inputs, the totals, the geolocation store); every change of a callback  *)
(* Input marks that callback as triggered, and the callback runs later, as *)
(* a step of its own, on the property values the layout holds at that      *)
(* moment.  submit_data is split at the points where the world outside the *)
(* handler shows: every datetime.now() read and every append_row call.     *)
(*                                                                         *)
(* Python values are tagged so that values of different types can be       *)
(* compared: None, PyInt(n), PyStr(s).  Texts that the code splits are         *)
(* sequences of tokens, the separator being a token of its own.            *)
(***************************************************************************)
EXTENDS Integers, Sequences, FiniteSets, TLC

VARIABLES
    retailer,              \* retailer-dropdown.value
    category,              \* category-dropdown.value
    salesperson_info,      \* salesperson-info.children
    spTriggered,           \* update_salesperson_info is triggered, not yet run
    product_inputs,        \* product-inputs.children: a message or the rendered rows
    catTriggered,          \* update_product_inputs is triggered, not yet run
    total_category_value,  \* total-category-value.children
    totTriggered,          \* update_total_amount is triggered, not yet run
    n_clicks,              \* submit-btn.n_clicks
    geolocation,           \* geolocation.data (dcc.Store)
    geoTriggered,          \* the clientside callback is triggered, not yet run
    submitTriggered,       \* submit_data is triggered, not yet run
    retailers_data,        \* the rows of the "Retailers" worksheet, read at start
    products_data,         \* the rows of the "Products" worksheet, read at start
    pc,                    \* where the running submit_data is: idle, build, append
    local,                 \* the local variables of the running submit_data
    status,                \* submission-status.children
    displayed,             \* confirm-dialog.displayed
    sink,                  \* the rows of the "Submissions" worksheet
    clock,                 \* the last reading of datetime.datetime.now()
    uuids                  \* how many identifiers uuid.uuid4() has handed out

vars == <<retailer, category, salesperson_info, spTriggered, product_inputs,
          catTriggered, total_category_value, totTriggered, n_clicks, geolocation,
          geoTriggered, submitTriggered, retailers_data, products_data, pc, local,
          status, displayed,
          sink, clock, uuids>>

\* the draft: what the user selected and typed, and what is rendered for it
draftVars == <<retailer, category, salesperson_info, spTriggered, product_inputs,
               catTriggered, total_category_value, totTriggered>>
\* the submit button and the geolocation store
clickVars == <<n_clicks, geolocation, geoTriggered, submitTriggered>>
\* the worksheets read at start, never written
dataVars == <<retailers_data, products_data>>
\* the running submit_data and what it reads outside the layout
runVars == <<pc, local, sink, clock, uuids>>

----------------------------------------------------------------------------
(* Bounds of the exploration *)

\* the largest quantity a user types
MaxQty == 1
\* the number of clicks on Submit
MaxClicks == 2
\* the latest reading of the clock
MaxClock == 1

----------------------------------------------------------------------------
(* Python values *)

None == [none |-> TRUE]
PyInt(n) == [int |-> n]
PyStr(s) == [str |-> s]
IsNone(v) == DOMAIN v = {"none"}
IsInt(v) == DOMAIN v = {"int"}
IsStr(v) == DOMAIN v = {"str"}
\* the outcome of an expression that raises
Raise == [raise |-> TRUE]
Raises(v) == DOMAIN v = {"raise"}

\* Python's truth test of a dropdown value, "not v" being ~Truthy(v)
Truthy(v) ==
    IF IsNone(v) THEN FALSE
    ELSE IF IsInt(v) THEN v.int # 0
    ELSE IF IsStr(v) THEN v.str # ""
    ELSE IF DOMAIN v = {"text"} THEN v.text # <<>>
    ELSE TRUE

RECURSIVE Repeat(_, _)
\* the text s written n times (Python's str * int; nothing when n <= 0)
Repeat(s, n) == IF n <= 0 THEN "" ELSE s \o Repeat(s, n - 1)

\* a text the code takes apart or puts together, as its sequence of tokens
Text(t) == [text |-> t]
IsText(v) == DOMAIN v = {"text"}
\* a Python list
List(l) == [list |-> l]
IsList(v) == DOMAIN v = {"list"}

RECURSIVE Split(_, _)
\* str.split(sep) on a sequence of tokens: the pieces between the separators
Split(t, sep) ==
    IF \E i \in 1..Len(t) : t[i] = sep
    THEN LET i == CHOOSE j \in 1..Len(t) :
                      /\ t[j] = sep
                      /\ \A h \in 1..(j - 1) : t[h] # sep
         IN  <<SubSeq(t, 1, i - 1)>> \o Split(SubSeq(t, i + 1, Len(t)), sep)
    ELSE <<t>>

\* next((x for x in rows if x[key] == wanted), None): the first row whose cell
\* under key is the wanted value, None when there is none
first_with(rows, key, wanted) ==
    IF \E i \in 1..Len(rows) : rows[i][key] = wanted
    THEN rows[CHOOSE i \in 1..Len(rows) :
                  /\ rows[i][key] = wanted
                  /\ \A h \in 1..(i - 1) : rows[h][key] # wanted]
    ELSE None

----------------------------------------------------------------------------
(* The worksheets read at start *)

\* a retailer sheet in which every retailer has a salesperson, a team and an
\* email
CompleteRetailers ==
    << [Retailer_Name |-> PyStr("Metro"), Salesperson |-> <<"Asha">>,
        Team |-> <<"North">>, Email |-> <<"asha@example.com">>] >>

\* a retailer sheet with a retailer whose Team cell is empty (get_all_records
\* gives '' for an empty cell)
RetailersWithEmptyTeam ==
    << [Retailer_Name |-> PyStr("Corner"), Salesperson |-> <<"Ravi">>,
        Team |-> <<>>, Email |-> <<"ravi@example.com">>] >>

categories_data ==
    << [Category_Name |-> PyStr("Snacks")],
       [Category_Name |-> PyStr("Dairy")],
       [Category_Name |-> PyStr("Frozen")] >>

\* a catalog in which every product name is unique: two snacks around one dairy
\* product, and no frozen product
SnacksDairyCatalog ==
    << [Product_name |-> PyStr("Chips"), Category |-> PyStr("Snacks"), Price |-> PyInt(2)],
       [Product_name |-> PyStr("Milk"), Category |-> PyStr("Dairy"), Price |-> PyInt(5)],
       [Product_name |-> PyStr("Cola"), Category |-> PyStr("Snacks"), Price |-> PyInt(3)] >>

\* a catalog in which two products of different categories share a name and
\* differ in price; the sheet is read as it is (line 29), nothing checks names
DuplicateNameCatalog ==
    << [Product_name |-> PyStr("Chips"), Category |-> PyStr("Snacks"), Price |-> PyInt(2)],
       [Product_name |-> PyStr("Milk"), Category |-> PyStr("Dairy"), Price |-> PyInt(5)],
       [Product_name |-> PyStr("Chips"), Category |-> PyStr("Dairy"), Price |-> PyInt(3)] >>

\* the values the retailer dropdown offers, and None when it is cleared
retailers_options(retailers) ==
    {retailers[i].Retailer_Name : i \in 1..Len(retailers)} \cup {None}

\* the values the category dropdown offers, and None when it is cleared
category_options ==
    {categories_data[i].Category_Name : i \in 1..Len(categories_data)} \cup {None}

\* what a quantity input holds when a callback reads it: nothing or a number.
\* min=0 (line 130) is an attribute of the input in the browser; the callbacks
\* take the value the request carries and do not check its sign
QuantityValues ==
    {None} \cup {PyInt(n) : n \in (-1)..MaxQty}

----------------------------------------------------------------------------
(* The layout's texts *)

\* The texts are written without the pictograms the source puts in front of
\* them, and the rupee sign of the amounts is written Rs.

\* a number rendered with two decimals (:.2f), as its count of hundredths
Fmt2(x) == x * 100
\* f"<prefix>{x:.2f}"
Money(prefix, x) == [prefix |-> prefix, hundredths |-> Fmt2(x)]

\* html.P(children)
P(children) == [props |-> [children |-> children]]

\* one dbc.Row of product-inputs: the label, the input and the line's total
InputRow(product_name) ==
    [index |-> product_name, value |-> None, total |-> Money("Rs", 0)]

\* the rendered rows, none when product-inputs shows a message
Rows(children) == IF IsList(children) THEN children.list ELSE <<>>
\* State/Input({"type": "input", "index": ALL}, "value")
InputValues(children) == [i \in 1..Len(Rows(children)) |-> Rows(children)[i].value]
\* State({"type": "input", "index": ALL}, "id")
InputIds(children) ==
    [i \in 1..Len(Rows(children)) |-> [index |-> Rows(children)[i].index]]

----------------------------------------------------------------------------
(* update_salesperson_info *)

update_salesperson_info(retailers, selected_retailer) ==
    IF ~Truthy(selected_retailer) THEN Text(<<"Please select a retailer.">>)
    ELSE LET info == first_with(retailers, "Retailer_Name", selected_retailer)
         IN  IF IsNone(info) THEN Text(<<"Retailer not found.">>)
             ELSE List(<< P(<<"Salesperson", ": ">> \o info.Salesperson),
                          P(<<"Team", ": ">> \o info.Team),
                          P(<<"Email", ": ">> \o info.Email) >>)

----------------------------------------------------------------------------
(* update_product_inputs *)

\* the list comprehension without its condition: every product of the catalog
products_unfiltered(catalog, selected_category) == catalog

RECURSIVE filtered_products(_, _)
\* [p for p in products_data if p.get("Category") == selected_category]
filtered_products(catalog, selected_category) ==
    IF catalog = <<>> THEN <<>>
    ELSE (IF Head(catalog).Category = selected_category
          THEN <<Head(catalog)>> ELSE <<>>)
         \o filtered_products(Tail(catalog), selected_category)

update_product_inputs(catalog, selected_category) ==
    IF ~Truthy(selected_category)
    THEN Text(<<"Please select a category to enter product quantities.">>)
    ELSE LET filtered == filtered_products(catalog, selected_category)
         IN  IF filtered = <<>>
             THEN Text(<<"No products found under the '", selected_category.str,
                         "' category.">>)
             ELSE List([i \in 1..Len(filtered) |-> InputRow(filtered[i].Product_name)])

----------------------------------------------------------------------------
(* update_total_amount *)

\* float(price) * quantity: a float times an int is a number, a float times
\* anything else raises TypeError
FloatTimes(price, quantity) ==
    IF IsInt(quantity) THEN PyInt(price * quantity.int) ELSE Raise

\* the lookup of the product fails (a wrong key), so that the price is 0
line_total_no_price(catalog, quantity, id) ==
    FloatTimes(0, IF IsNone(quantity) THEN PyInt(0) ELSE quantity)

\* one turn of the loop: the line's amount for the quantity at idx
line_total(catalog, quantity, id) ==
    LET q == IF IsNone(quantity) THEN PyInt(0) ELSE quantity
        product_info == first_with(catalog, "Product_name", id.index)
        price == IF IsNone(product_info) THEN 0 ELSE product_info.Price.int
    IN  FloatTimes(price, q)

RECURSIVE SumInts(_)
SumInts(s) == IF s = <<>> THEN 0 ELSE Head(s).int + SumInts(Tail(s))

\* the callback's return value, or Raise when a line's product raises
update_total_amount(catalog, quantities, ids) ==
    IF quantities = <<>>
    THEN [total_values |-> [i \in 1..Len(ids) |-> Money("Rs", 0)],
          category_total |-> Money("Total Value: Rs", 0)]
    ELSE LET amounts == [i \in 1..Len(quantities) |->
                            line_total(catalog, quantities[i], ids[i])]
         IN  IF \E i \in 1..Len(amounts) : Raises(amounts[i]) THEN Raise
             ELSE [total_values |-> [i \in 1..Len(amounts) |->
                                        Money("Rs", amounts[i].int)],
                   category_total |-> Money("Total Value: Rs", SumInts(amounts))]

----------------------------------------------------------------------------
(* submit_data *)

\* the three results the handler returns: (submission-status, confirm-dialog)
Incomplete == <<Text(<<"Please complete all fields before submitting.">>), FALSE>>
Failed == <<Text(<<"An error occurred while submitting. Please try again.">>), FALSE>>
Submitted(selected_category, selected_retailer) ==
    <<Text(<<"Data submitted successfully for ", selected_category.str, " in ",
             selected_retailer.str, ".">>), TRUE>>

\* the check of line 183 without its last condition
incomplete_without_category(clicks, selected_retailer, selected_category) ==
    ~Truthy(clicks) \/ ~Truthy(selected_retailer)

\* line 183: the fields the handler refuses to go on without
incomplete(clicks, selected_retailer, selected_category) ==
    ~Truthy(clicks) \/ ~Truthy(selected_retailer) \/ ~Truthy(selected_category)

\* salesperson_info[i]["props"]["children"].split(": ")[1], i counted from 0:
\* raises on None, on a message (a str has no "props"), and on a text
\* without ": "
parsed_field(info, i) ==
    IF ~IsList(info) THEN Raise
    ELSE IF Len(info.list) < i + 1 THEN Raise
    ELSE LET parts == Split(info.list[i + 1].props.children, ": ")
         IN  IF Len(parts) < 2 THEN Raise ELSE Text(parts[2])

\* lines 195-198 with an empty default in place of "0", "0"
coordinates_empty_default(geo) ==
    IF Truthy(geo)
    THEN LET parts == Split(geo.text, ",")
         IN  IF Len(parts) = 2
             THEN [latitude |-> Text(parts[1]), longitude |-> Text(parts[2])]
             ELSE Raise
    ELSE [latitude |-> Text(<<>>), longitude |-> Text(<<>>)]

\* lines 195-198: the pair (latitude, longitude); unpacking raises unless the
\* split gives exactly two pieces
coordinates(geo) ==
    IF Truthy(geo)
    THEN LET parts == Split(geo.text, ",")
         IN  IF Len(parts) = 2
             THEN [latitude |-> Text(parts[1]), longitude |-> Text(parts[2])]
             ELSE Raise
    ELSE [latitude |-> Text(<<"0">>), longitude |-> Text(<<"0">>)]

\* line 204: the quantity for the product at position idx (counted from 1 here,
\* from 0 in the source)
quantity_at(input_values, idx) ==
    IF idx <= Len(input_values) /\ ~IsNone(input_values[idx])
    THEN input_values[idx] ELSE PyInt(0)

\* line 205
price_of(product) == IF IsNone(product.Price) THEN PyInt(0) ELSE product.Price

\* line 206 without the multiplication: the unit price as the amount
amount_unit_price(price, quantity) == price

\* line 206, price * quantity for an int price: an int times an int, or a str
\* repeated
amount_of(price, quantity) ==
    IF IsInt(quantity) THEN PyInt(price.int * quantity.int)
    ELSE IF IsStr(quantity) THEN PyStr(Repeat(quantity.str, price.int))
    ELSE Raise

\* uuid.uuid4(): an identifier that was not handed out before, the drawn-th one
uuid4(drawn) == drawn + 1
\* an identifier made from the position of the record in its batch
unique_id_by_position(drawn, idx) == [uuid |-> idx]

\* line 207: str(uuid.uuid4()) for the record at position idx
unique_id(drawn, idx) == [uuid |-> uuid4(drawn)]

\* datetime.isoformat(): the text of the instant, one text per instant
isoformat(t) == [iso |-> t]

\* the keys of the dict of lines 209-222, in insertion order
Keys ==
    <<"UniqueID", "Retailer", "Salesperson", "Team", "Email", "Category",
      "Product", "Quantity", "Amount", "Latitude", "Longitude", "Timestamp">>

\* lines 203-222: the dict built for the product at position idx, read at now
record_for(l, idx, id, now) ==
    LET product == l.filtered_products[idx]
        quantity == quantity_at(l.input_values, idx)
    IN  [UniqueID |-> id,
         Retailer |-> l.selected_retailer,
         Salesperson |-> l.salesperson,
         Team |-> l.team,
         Email |-> l.email,
         Category |-> l.selected_category,
         Product |-> product.Product_name,
         Quantity |-> quantity,
         Amount |-> amount_of(price_of(product), quantity),
         Latitude |-> l.latitude,
         Longitude |-> l.longitude,
         Timestamp |-> isoformat(now)]

\* list(data.values()): the cells of a row, in the order of the keys
values(data) == [i \in 1..Len(Keys) |-> data[Keys[i]]]
\* the cell of a row under a key
Cell(row, key) == row[CHOOSE i \in 1..Len(Keys) : Keys[i] = key]

\* lines 183-200: what the handler holds when it reaches the loop, or the
\* result it returns before
entered(clicks, selected_retailer, selected_category, info, inputs, geo, catalog) ==
    IF incomplete(clicks, selected_retailer, selected_category)
    THEN [returns |-> Incomplete]
    ELSE LET salesperson == parsed_field(info, 0)
             team == parsed_field(info, 1)
             email == parsed_field(info, 2)
             c == coordinates(geo)
         IN  IF Raises(salesperson) \/ Raises(team) \/ Raises(email)
                \/ Raises(c)
             THEN [returns |-> Failed]
             ELSE [selected_retailer |-> selected_retailer,
                   selected_category |-> selected_category,
                   salesperson |-> salesperson,
                   team |-> team,
                   email |-> email,
                   filtered_products |->
                       filtered_products(catalog, selected_category),
                   input_values |-> inputs,
                   latitude |-> c.latitude,
                   longitude |-> c.longitude,
                   submission_data |-> <<>>,
                   appended |-> 0]
Returns(e) == "returns" \in DOMAIN e

----------------------------------------------------------------------------
(* The state after construction: the page is loaded, nothing is selected, and
   the callbacks without prevent_initial_call are triggered by the load *)

Init ==
    /\ retailer = None
    /\ category = None
    /\ salesperson_info = None
    /\ spTriggered = TRUE
    /\ product_inputs = None
    /\ catTriggered = TRUE
    /\ total_category_value = None
    /\ totTriggered = FALSE
    /\ n_clicks = None
    /\ geolocation = None
    /\ geoTriggered = TRUE
    /\ submitTriggered = FALSE
    /\ retailers_data = CompleteRetailers
    /\ products_data = SnacksDairyCatalog
    /\ pc = "idle"
    /\ local = None
    /\ status = None
    /\ displayed = FALSE
    /\ sink = <<>>
    /\ clock = 0
    /\ uuids = 0

----------------------------------------------------------------------------
(* The user's steps.  The layout is not touched while a submit_data runs:
   the handler works on the values it was called with.  The user changes the
   draft when the layout has settled, one change at a time; a click on Submit
   comes at any moment, also while a callback of the draft is still to run. *)

\* no callback of the draft is triggered
Settled == ~spTriggered /\ ~catTriggered /\ ~totTriggered

\* the clicks on Submit so far
Clicks == IF IsNone(n_clicks) THEN 0 ELSE n_clicks.int
\* the user changes the draft when no submit is waiting or running (the click
\* calls submit_data with the values of that moment), and before the last
\* click, with which the session ends
Editing == pc = "idle" /\ Settled /\ ~submitTriggered /\ Clicks < MaxClicks

\* the user picks or clears the retailer
SelectRetailer(r) ==
    /\ Editing
    /\ r # retailer
    /\ retailer' = r
    /\ spTriggered' = TRUE
    /\ UNCHANGED <<category, salesperson_info, product_inputs, catTriggered,
                   total_category_value, totTriggered>>
    /\ UNCHANGED <<clickVars, dataVars, runVars, status, displayed>>

\* the user picks or clears the category
SelectCategory(c) ==
    /\ Editing
    /\ c # category
    /\ category' = c
    /\ catTriggered' = TRUE
    /\ UNCHANGED <<retailer, salesperson_info, spTriggered, product_inputs,
                   total_category_value, totTriggered>>
    /\ UNCHANGED <<clickVars, dataVars, runVars, status, displayed>>

\* the user changes the quantity of the i-th rendered line
SetQuantity(i, v) ==
    /\ Editing
    /\ i \in 1..Len(Rows(product_inputs))
    /\ v # Rows(product_inputs)[i].value
    /\ product_inputs' =
           List([Rows(product_inputs) EXCEPT ![i].value = v])
    /\ totTriggered' = TRUE
    /\ UNCHANGED <<retailer, category, salesperson_info, spTriggered, catTriggered,
                   total_category_value>>
    /\ UNCHANGED <<clickVars, dataVars, runVars, status, displayed>>

\* the user clicks Submit: both callbacks on submit-btn.n_clicks are triggered
Click ==
    /\ pc = "idle"
    /\ Clicks < MaxClicks
    /\ n_clicks' = PyInt(Clicks + 1)
    /\ geoTriggered' = TRUE
    /\ submitTriggered' = TRUE
    /\ UNCHANGED <<geolocation, draftVars, dataVars, runVars, status, displayed>>

----------------------------------------------------------------------------
(* The callbacks of the layout *)

\* lines 90-106
UpdateSalespersonInfo ==
    /\ pc = "idle"
    /\ spTriggered
    /\ salesperson_info' = update_salesperson_info(retailers_data, retailer)
    /\ spTriggered' = FALSE
    /\ UNCHANGED <<retailer, category, product_inputs, catTriggered,
                   total_category_value, totTriggered>>
    /\ UNCHANGED <<clickVars, dataVars, runVars, status, displayed>>

\* lines 109-139; inputs that came or went trigger update_total_amount, whose
\* Input is the value of every input of the layout
UpdateProductInputs ==
    /\ pc = "idle"
    /\ catTriggered
    /\ product_inputs' = update_product_inputs(products_data, category)
    /\ catTriggered' = FALSE
    /\ totTriggered' = (\/ totTriggered
                        \/ Rows(product_inputs) # <<>>
                        \/ Rows(product_inputs') # <<>>)
    /\ UNCHANGED <<retailer, category, salesperson_info, spTriggered,
                   total_category_value>>
    /\ UNCHANGED <<clickVars, dataVars, runVars, status, displayed>>

\* lines 142-168; when the callback raises, its outputs keep their values
UpdateTotalAmount ==
    /\ pc = "idle"
    /\ totTriggered
    /\ totTriggered' = FALSE
    /\ LET out == update_total_amount(products_data, InputValues(product_inputs),
                                      InputIds(product_inputs))
       IN  IF Raises(out)
           THEN UNCHANGED <<product_inputs, total_category_value>>
           ELSE /\ product_inputs' =
                       IF IsList(product_inputs)
                       THEN List([i \in 1..Len(Rows(product_inputs)) |->
                                     [Rows(product_inputs)[i] EXCEPT
                                          !.total = out.total_values[i]]])
                       ELSE product_inputs
                /\ total_category_value' = out.category_total
    /\ UNCHANGED <<retailer, category, salesperson_info, spTriggered, catTriggered>>
    /\ UNCHANGED <<clickVars, dataVars, runVars, status, displayed>>

\* a function whose success callback sets the store to the position found
GeolocationStoresPosition ==
    /\ pc = "idle"
    /\ geoTriggered
    /\ geolocation' = Text(<<"12.97", ",", "77.59">>)
    /\ geoTriggered' = FALSE
    /\ UNCHANGED <<n_clicks, submitTriggered>>
    /\ UNCHANGED <<draftVars, dataVars, runVars, status, displayed>>

\* lines 67-87: the function returns "0,0" whatever n_clicks is; the position
\* that arrives later goes to window.localStorage, not to the store
Geolocation ==
    /\ pc = "idle"
    /\ geoTriggered
    /\ geolocation' = Text(<<"0", ",", "0">>)
    /\ geoTriggered' = FALSE
    /\ UNCHANGED <<n_clicks, submitTriggered>>
    /\ UNCHANGED <<draftVars, dataVars, runVars, status, displayed>>

----------------------------------------------------------------------------
(* submit_data, lines 171-232 *)

\* an except branch that swallows the exception and reports success
ExceptSwallowed ==
    /\ status' = Submitted(local.selected_category, local.selected_retailer)[1]
    /\ displayed' = Submitted(local.selected_category, local.selected_retailer)[2]
    /\ pc' = "idle"
    /\ local' = None

\* the except branch, lines 230-232
Except ==
    /\ status' = Failed[1]
    /\ displayed' = Failed[2]
    /\ pc' = "idle"
    /\ local' = None

\* datetime.datetime.now(): the clock does not run backwards, and may have
\* advanced since it was last read
Now == {t \in clock..(clock + 1) : t <= MaxClock}

\* a handler that also has the category dropdown as an Output and clears it
\* when it returns before the loop
SubmitEnterClearsCategory ==
    /\ pc = "idle"
    /\ submitTriggered
    /\ submitTriggered' = FALSE
    /\ LET e == entered(n_clicks, retailer, category, salesperson_info,
                        InputValues(product_inputs), geolocation, products_data)
       IN  IF Returns(e)
           THEN /\ status' = e.returns[1]
                /\ displayed' = e.returns[2]
                /\ category' = None
                /\ catTriggered' = TRUE
                /\ UNCHANGED <<pc, local>>
           ELSE /\ pc' = "build"
                /\ local' = e
                /\ UNCHANGED <<status, displayed, category, catTriggered>>
    /\ UNCHANGED <<n_clicks, geolocation, geoTriggered>>
    /\ UNCHANGED <<retailer, salesperson_info, spTriggered, product_inputs,
                   total_category_value, totTriggered>>
    /\ UNCHANGED <<dataVars, sink, clock, uuids>>

\* lines 182-200: the handler is called with the values the layout holds
SubmitEnter ==
    /\ pc = "idle"
    /\ submitTriggered
    /\ submitTriggered' = FALSE
    /\ LET e == entered(n_clicks, retailer, category, salesperson_info,
                        InputValues(product_inputs), geolocation, products_data)
       IN  IF Returns(e)
           THEN /\ status' = e.returns[1]
                /\ displayed' = e.returns[2]
                /\ UNCHANGED <<pc, local>>
           ELSE /\ pc' = "build"
                /\ local' = e
                /\ UNCHANGED <<status, displayed>>
    /\ UNCHANGED <<n_clicks, geolocation, geoTriggered>>
    /\ UNCHANGED <<draftVars, dataVars, sink, clock, uuids>>

\* lines 202-222: one turn of the loop over filtered_products
SubmitBuild ==
    /\ pc = "build"
    /\ Len(local.submission_data) < Len(local.filtered_products)
    /\ \E now \in Now :
        LET idx == Len(local.submission_data) + 1
            data == record_for(local, idx, unique_id(uuids, idx), now)
        IN  IF Raises(data.Amount)
            THEN Except /\ UNCHANGED <<clock, uuids>>
            ELSE /\ local' = [local EXCEPT
                                  !.submission_data = Append(@, data)]
                 /\ uuids' = uuids + 1
                 /\ clock' = now
                 /\ UNCHANGED <<pc, status, displayed>>
    /\ UNCHANGED <<draftVars, clickVars, dataVars, sink>>

\* line 224: the worksheet is opened once the loop is over
SubmitWorksheet ==
    /\ pc = "build"
    /\ Len(local.submission_data) = Len(local.filtered_products)
    /\ pc' = "append"
    /\ UNCHANGED <<local, status, displayed>>
    /\ UNCHANGED <<draftVars, clickVars, dataVars, sink, clock, uuids>>

\* line 224 raises: the spreadsheet cannot be reached
SubmitWorksheetRaise ==
    /\ pc = "build"
    /\ Len(local.submission_data) = Len(local.filtered_products)
    /\ Except
    /\ UNCHANGED <<draftVars, clickVars, dataVars, sink, clock, uuids>>

\* a loop of appends that walks submission_data from its last record
SubmitAppendFromLast ==
    /\ pc = "append"
    /\ local.appended < Len(local.submission_data)
    /\ sink' = Append(sink, values(local.submission_data[
                                      Len(local.submission_data) - local.appended]))
    /\ local' = [local EXCEPT !.appended = @ + 1]
    /\ UNCHANGED <<pc, status, displayed>>
    /\ UNCHANGED <<draftVars, clickVars, dataVars, clock, uuids>>

\* lines 225-226: one append_row, which adds the row at the end of the sheet
SubmitAppend ==
    /\ pc = "append"
    /\ local.appended < Len(local.submission_data)
    /\ sink' = Append(sink, values(local.submission_data[local.appended + 1]))
    /\ local' = [local EXCEPT !.appended = @ + 1]
    /\ UNCHANGED <<pc, status, displayed>>
    /\ UNCHANGED <<draftVars, clickVars, dataVars, clock, uuids>>

\* lines 225-226: append_row raises and adds nothing
SubmitAppendRaise ==
    /\ pc = "append"
    /\ local.appended < Len(local.submission_data)
    /\ Except
    /\ UNCHANGED <<draftVars, clickVars, dataVars, sink, clock, uuids>>

\* a return that treats a batch without records as a failure
SubmitReturnNeedsRows ==
    /\ pc = "append"
    /\ local.appended = Len(local.submission_data)
    /\ LET result == IF local.submission_data = <<>> THEN Failed
                     ELSE Submitted(local.selected_category, local.selected_retailer)
       IN  /\ status' = result[1]
           /\ displayed' = result[2]
    /\ pc' = "idle"
    /\ local' = None
    /\ UNCHANGED <<draftVars, clickVars, dataVars, sink, clock, uuids>>

\* line 228: every row is appended
SubmitReturn ==
    /\ pc = "append"
    /\ local.appended = Len(local.submission_data)
    /\ status' = Submitted(local.selected_category, local.selected_retailer)[1]
    /\ displayed' = Submitted(local.selected_category, local.selected_retailer)[2]
    /\ pc' = "idle"
    /\ local' = None
    /\ UNCHANGED <<draftVars, clickVars, dataVars, sink, clock, uuids>>

----------------------------------------------------------------------------

Next ==
    \/ \E r \in retailers_options(retailers_data) : SelectRetailer(r)
    \/ \E c \in category_options : SelectCategory(c)
    \/ \E i \in 1..Len(products_data), v \in QuantityValues : SetQuantity(i, v)
    \/ Click
    \/ UpdateSalespersonInfo
    \/ UpdateProductInputs
    \/ UpdateTotalAmount
    \/ Geolocation
    \/ SubmitEnter
    \/ SubmitBuild
    \/ SubmitWorksheet
    \/ SubmitWorksheetRaise
    \/ SubmitAppend
    \/ SubmitAppendRaise
    \/ SubmitReturn

Spec == Init /\ [][Next]_vars

\* the state after construction when the retailer sheet read at start is
\* RetailersWithEmptyTeam
InitEmptyTeam ==
    /\ retailer = None
    /\ category = None
    /\ salesperson_info = None
    /\ spTriggered = TRUE
    /\ product_inputs = None
    /\ catTriggered = TRUE
    /\ total_category_value = None
    /\ totTriggered = FALSE
    /\ n_clicks = None
    /\ geolocation = None
    /\ geoTriggered = TRUE
    /\ submitTriggered = FALSE
    /\ retailers_data = RetailersWithEmptyTeam
    /\ products_data = SnacksDairyCatalog
    /\ pc = "idle"
    /\ local = None
    /\ status = None
    /\ displayed = FALSE
    /\ sink = <<>>
    /\ clock = 0
    /\ uuids = 0

SpecEmptyTeam == InitEmptyTeam /\ [][Next]_vars

\* the state after construction when the product sheet read at start is
\* DuplicateNameCatalog
InitDuplicateName ==
    /\ retailer = None
    /\ category = None
    /\ salesperson_info = None
    /\ spTriggered = TRUE
    /\ product_inputs = None
    /\ catTriggered = TRUE
    /\ total_category_value = None
    /\ totTriggered = FALSE
    /\ n_clicks = None
    /\ geolocation = None
    /\ geoTriggered = TRUE
    /\ submitTriggered = FALSE
    /\ retailers_data = CompleteRetailers
    /\ products_data = DuplicateNameCatalog
    /\ pc = "idle"
    /\ local = None
    /\ status = None
    /\ displayed = FALSE
    /\ sink = <<>>
    /\ clock = 0
    /\ uuids = 0

SpecDuplicateName == InitDuplicateName /\ [][Next]_vars

----------------------------------------------------------------------------
(* What the claims speak of *)

\* the positions in the catalog of the products of a category
ProductsOf(c) == {j \in 1..Len(products_data) : products_data[j].Category = c}

\* the catalog price of the product with this name (names are unique in the
\* catalog of Spec)
PriceOf(name) ==
    LET j == CHOOSE h \in 1..Len(products_data) :
                 products_data[h].Product_name = name
    IN  products_data[j].Price.int

\* the handler has built every record and every append_row has succeeded
AllAppended ==
    /\ pc = "append"
    /\ local.appended = Len(local.submission_data)

\* the rows the running handler has appended so far
Batch == SubSeq(sink, Len(sink) - local.appended + 1, Len(sink))

\* the value the draft held for position i when the handler was called
EnteredAt(i) ==
    IF i <= Len(local.input_values) THEN local.input_values[i] ELSE None

\* this step is the call of submit_data (no other step takes the trigger away)
EnterStep == submitTriggered /\ ~submitTriggered'

----------------------------------------------------------------------------
(* C1 *)

\* C1: when a submit with a retailer and a category has appended every row, its
\* rows are one per catalog product of the selected category, none missing,
\* none twice and none of another category, and a line whose quantity was
\* blank or 0 is there with Quantity 0 and Amount 0.
C1_OneRecordPerProduct ==
    AllAppended =>
        /\ Len(Batch) = Cardinality(ProductsOf(local.selected_category))
        /\ \A j \in ProductsOf(local.selected_category) :
               Cardinality({i \in 1..Len(Batch) :
                   Cell(Batch[i], "Product") = products_data[j].Product_name}) = 1
        /\ \A i \in 1..Len(Batch) :
               /\ Cell(Batch[i], "Category") = local.selected_category
               /\ \E j \in ProductsOf(local.selected_category) :
                      Cell(Batch[i], "Product") = products_data[j].Product_name
               /\ EnteredAt(i) \in {None, PyInt(0)} =>
                      /\ Cell(Batch[i], "Quantity") = PyInt(0)
                      /\ Cell(Batch[i], "Amount") = PyInt(0)

\* a submit for Snacks has appended both rows, one line blank, one line 0
C1_Witness ==
    /\ AllAppended
    /\ local.selected_category = PyStr("Snacks")
    /\ local.input_values = <<None, PyInt(0)>>
    /\ Len(Batch) = 2

----------------------------------------------------------------------------
(* C2 *)

\* C2: every record built has Amount = catalog price of its Product times its
\* Quantity, and its Quantity is the value the draft held for that position
\* when submit was called (0 for a blank one), whatever the layout's totals
\* show.
C2_AmountIsPriceTimesQuantity ==
    pc # "idle" =>
        \A i \in 1..Len(local.submission_data) :
            LET d == local.submission_data[i]
            IN  /\ d.Quantity =
                       (IF IsNone(EnteredAt(i)) THEN PyInt(0) ELSE EnteredAt(i))
                /\ d.Amount = PyInt(PriceOf(d.Product) * d.Quantity.int)

\* a record is built for a line whose total in the layout is not yet
\* recomputed: the amount recorded differs from the one shown
C2_Witness ==
    /\ pc = "build"
    /\ Len(local.submission_data) >= 1
    /\ Len(Rows(product_inputs)) >= 1
    /\ Rows(product_inputs)[1].index = local.submission_data[1].Product
    /\ local.submission_data[1].Quantity = PyInt(1)
    /\ Rows(product_inputs)[1].total.hundredths
           # Fmt2(local.submission_data[1].Amount.int)

----------------------------------------------------------------------------
(* C3 *)

\* a quantity the draft can hold by typing: blank, or a number not below 0
Typed(v) == IsNone(v) \/ (IsInt(v) /\ v.int >= 0)
\* the number a typed quantity stands for
Qty(v) == IF IsNone(v) THEN 0 ELSE v.int

RECURSIVE SumOfLines(_)
\* the sum over the lines of price times quantity
SumOfLines(rows) ==
    IF rows = <<>> THEN 0
    ELSE PriceOf(Head(rows).index) * Qty(Head(rows).value) + SumOfLines(Tail(rows))

\* C3: once update_total_amount has run on the quantities the lines hold, every
\* line shows price times quantity and the category total is the sum of that
\* over the displayed lines: a function of the current quantities alone.
C3_TotalsFromCurrentQuantities ==
    (/\ ~totTriggered
     /\ Rows(product_inputs) # <<>>
     /\ \A i \in 1..Len(Rows(product_inputs)) : Typed(Rows(product_inputs)[i].value))
    =>
        /\ \A i \in 1..Len(Rows(product_inputs)) :
               LET row == Rows(product_inputs)[i]
               IN  row.total =
                       [prefix |-> "Rs",
                        hundredths |-> 100 * PriceOf(row.index) * Qty(row.value)]
        /\ total_category_value =
               [prefix |-> "Total Value: Rs",
                hundredths |-> 100 * SumOfLines(Rows(product_inputs))]

\* in a session with a submit, both lines of Snacks were edited and the totals
\* are those of the quantities the lines hold
C3_Witness ==
    /\ ~totTriggered
    /\ Len(Rows(product_inputs)) = 2
    /\ Rows(product_inputs)[1].value = PyInt(1)
    /\ Rows(product_inputs)[2].value = PyInt(0)
    /\ total_category_value = [prefix |-> "Total Value: Rs", hundredths |-> 200]
    /\ Clicks = 1

----------------------------------------------------------------------------
(* C4 *)

\* C4: a call of submit_data with no retailer or no category returns the
\* validation message with the dialog not displayed, and the handler is over
\* without a row appended.
C4_IncompleteAppendsNothing ==
    [][(EnterStep /\ (IsNone(retailer) \/ IsNone(category))) =>
           /\ status' = Text(<<"Please complete all fields before submitting.">>)
           /\ displayed' = FALSE
           /\ sink' = sink
           /\ pc' = "idle"]_vars

\* a submit with a retailer and no category was refused
C4_Witness ==
    /\ status = Text(<<"Please complete all fields before submitting.">>)
    /\ ~displayed
    /\ ~IsNone(retailer)
    /\ IsNone(category)
    /\ salesperson_info # None
    /\ IsList(salesperson_info)
    /\ Clicks = 1
    /\ ~submitTriggered
    /\ sink = <<>>

----------------------------------------------------------------------------
(* C5 *)

\* the names of the products of a category, in catalog order
RECURSIVE NamesOf(_, _)
NamesOf(catalog, c) ==
    IF catalog = <<>> THEN <<>>
    ELSE (IF Head(catalog).Category = c THEN <<Head(catalog).Product_name>>
          ELSE <<>>) \o NamesOf(Tail(catalog), c)

\* the names of the rendered lines, in their order
LineNames == [i \in 1..Len(Rows(product_inputs)) |-> Rows(product_inputs)[i].index]

\* C5: after category B is selected, the lines are the products of B in catalog
\* order, and a submit for B records no quantity entered for the category
\* selected before: a quantity above 0 in a record is the one held by the line
\* of that record's product.
C5_NoLineOfOldCategorySurvives ==
    /\ ~catTriggered => LineNames = NamesOf(products_data, category)
    /\ pc # "idle" =>
           \A i \in 1..Len(local.submission_data) :
               LET d == local.submission_data[i]
               IN  d.Quantity.int > 0 =>
                       \E h \in 1..Len(Rows(product_inputs)) :
                           /\ Rows(product_inputs)[h].index = d.Product
                           /\ Rows(product_inputs)[h].value = d.Quantity

----------------------------------------------------------------------------
(* C6 *)

\* C6: a quantity below 0 gives the state quantity 0 gives: the line's total
\* and its part of the category total are those of 0, and the record built
\* at submit has Quantity 0 and Amount 0.
C6_NegativeCountsAsZero ==
    /\ (~totTriggered /\ Rows(product_inputs) # <<>>) =>
           \A i \in 1..Len(Rows(product_inputs)) :
               LET row == Rows(product_inputs)[i]
               IN  (IsInt(row.value) /\ row.value.int < 0) =>
                       row.total = [prefix |-> "Rs", hundredths |-> 0]
    /\ pc # "idle" =>
           \A i \in 1..Len(local.submission_data) :
               (IsInt(EnteredAt(i)) /\ EnteredAt(i).int < 0) =>
                   /\ local.submission_data[i].Quantity = PyInt(0)
                   /\ local.submission_data[i].Amount = PyInt(0)

----------------------------------------------------------------------------
(* C7 *)

\* C7: the records one submit has built all carry one Timestamp.
C7_OneTimestampPerBatch ==
    pc # "idle" =>
        \A i, j \in 1..Len(local.submission_data) :
            local.submission_data[i].Timestamp = local.submission_data[j].Timestamp

----------------------------------------------------------------------------
(* C8 *)

\* the identifiers of the rows of the sink, then of the records built and not
\* yet appended
IdsBuilt ==
    [i \in 1..Len(sink) |-> Cell(sink[i], "UniqueID")]
    \o (IF pc = "idle" THEN <<>>
        ELSE [i \in 1..(Len(local.submission_data) - local.appended) |->
                 local.submission_data[local.appended + i].UniqueID])

\* C8: no two records share a Unique ID, within a batch or across the batches
\* of several submits.
C8_UniqueIdsNeverShared ==
    \A i, j \in 1..Len(IdsBuilt) : i # j => IdsBuilt[i] # IdsBuilt[j]

\* the same draft was submitted twice: the sink holds two batches of two rows
\* that agree in everything but the identifier and the timestamp
C8_Witness ==
    /\ Len(sink) = 4
    /\ pc = "idle"
    /\ \A i \in 1..2 :
           \A k \in 1..Len(Keys) :
               Keys[k] \notin {"UniqueID", "Timestamp"} => sink[i][k] = sink[i + 2][k]

----------------------------------------------------------------------------
(* C9 *)

\* C9: the records one submit has built all carry the pair read from the
\* geolocation value the handler was called with: joined by a comma the pair
\* is that value, and it is "0" and "0" when there was no value.
C9_OneCoordinatePairPerBatch ==
    pc # "idle" =>
        \A i \in 1..Len(local.submission_data) :
            LET d == local.submission_data[i]
            IN  /\ d.Latitude = local.submission_data[1].Latitude
                /\ d.Longitude = local.submission_data[1].Longitude
                /\ IsText(d.Latitude) /\ IsText(d.Longitude)
                /\ IF IsNone(geolocation)
                   THEN d.Latitude.text = <<"0">> /\ d.Longitude.text = <<"0">>
                   ELSE d.Latitude.text \o <<",">> \o d.Longitude.text
                            = geolocation.text

\* two records are built by a submit that was called before the store held
\* a value
C9_Witness ==
    /\ pc = "append"
    /\ IsNone(geolocation)
    /\ Len(local.submission_data) = 2

----------------------------------------------------------------------------
(* C10 *)

\* this step ends the running handler with the success result
SuccessStep == pc # "idle" /\ pc' = "idle" /\ displayed'
\* this step ends the running handler with a failure result
FailureStep == pc # "idle" /\ pc' = "idle" /\ ~displayed'

\* C10: a handler whose append_row fails ends with the failure message and the
\* dialog not displayed, the rows of the sink stay as they are, and nothing
\* appends again until a new click; the success result is returned only when
\* every record of the batch is in the sink; rows are only ever added at the
\* end of the sink, by the running handler.
C10_AppendFailureIsReported ==
    [][/\ Len(sink') >= Len(sink) /\ SubSeq(sink', 1, Len(sink)) = sink
       /\ sink' # sink => (pc = "append" /\ pc' = "append")
       /\ (pc = "append" /\ pc' = "idle"
              /\ local.appended < Len(local.submission_data)) =>
              /\ status' = Text(<<"An error occurred while submitting. Please try again.">>)
              /\ ~displayed'
              /\ sink' = sink
              /\ ~submitTriggered'
       /\ FailureStep => (sink' = sink /\ ~submitTriggered')
       /\ SuccessStep =>
              /\ local.appended = Len(local.submission_data)
              /\ Len(sink) >= local.appended
              /\ Batch = [i \in 1..Len(local.submission_data) |->
                             values(local.submission_data[i])]]_vars

\* the second append_row of a batch of two has failed: the first row is in the
\* sink, the failure is shown, and no handler runs
C10_Witness ==
    /\ pc = "idle"
    /\ ~submitTriggered
    /\ status = Text(<<"An error occurred while submitting. Please try again.">>)
    /\ ~displayed
    /\ Len(sink) = 1
    /\ Cell(sink[1], "Category") = PyStr("Snacks")

----------------------------------------------------------------------------
(* C11 *)

\* C11: a handler that has passed its checks (it builds or appends records)
\* was called with a retailer of the retailer sheet and holds a salesperson
\* name, a team and an email that are all non-empty; the rows of the sink
\* carry non-empty ones too.
C11_SalespersonFieldsEnforced ==
    /\ pc # "idle" =>
           /\ \E i \in 1..Len(retailers_data) :
                  retailers_data[i].Retailer_Name = local.selected_retailer
           /\ local.salesperson # Text(<<>>)
           /\ local.team # Text(<<>>)
           /\ local.email # Text(<<>>)
    /\ \A i \in 1..Len(sink) :
           /\ Cell(sink[i], "Salesperson") # Text(<<>>)
           /\ Cell(sink[i], "Team") # Text(<<>>)
           /\ Cell(sink[i], "Email") # Text(<<>>)

----------------------------------------------------------------------------
(* C12 *)

\* C12: a call of submit_data that returns before its loop (the validation
\* message, or the failure of reading the salesperson) leaves the draft as it
\* was: the selected retailer, the selected category, the rendered lines and
\* the quantity every line holds; and no handler is left running, so that a
\* new click calls submit_data again.
C12_FailedSubmitKeepsDraft ==
    [][(EnterStep /\ pc' = "idle") =>
           /\ ~displayed'
           /\ retailer' = retailer
           /\ category' = category
           /\ salesperson_info' = salesperson_info
           /\ LineNames' = LineNames
           /\ InputValues(product_inputs') = InputValues(product_inputs)
           /\ product_inputs' = product_inputs
           /\ total_category_value' = total_category_value
           /\ ~submitTriggered']_vars

\* a submit of two lines of Snacks without a retailer was refused, and the
\* lines hold what was entered
C12_Witness ==
    /\ pc = "idle"
    /\ status = Incomplete[1]
    /\ ~displayed
    /\ ~submitTriggered
    /\ Clicks = 1
    /\ IsNone(retailer)
    /\ category = PyStr("Snacks")
    /\ InputValues(product_inputs) = <<PyInt(1), PyInt(0)>>

----------------------------------------------------------------------------
(* C13 *)

\* C13: a step that changes the sink is one append_row of a handler that has
\* built its whole batch, and adds the next record in build order as one row;
\* while records are built nothing is appended; and at the success return
\* the rows the handler added are its records in build order, whose products
\* are those of the selected category in catalog order.
C13_AppendsInBuildOrder ==
    [][/\ sink' # sink =>
              /\ pc = "append"
              /\ Len(local.submission_data) = Len(local.filtered_products)
              /\ sink' = Append(sink, values(local.submission_data[local.appended + 1]))
              /\ local'.appended = local.appended + 1
              /\ local'.submission_data = local.submission_data
       /\ pc = "build" => local.appended = 0
       /\ (pc = "build" /\ pc' = "build") =>
              /\ Len(local'.submission_data) = Len(local.submission_data) + 1
              /\ SubSeq(local'.submission_data, 1, Len(local.submission_data))
                     = local.submission_data
       /\ SuccessStep =>
              /\ Len(Batch) = Len(local.submission_data)
              /\ \A i \in 1..Len(Batch) : Batch[i] = values(local.submission_data[i])
              /\ [i \in 1..Len(Batch) |-> Cell(Batch[i], "Product")]
                     = NamesOf(products_data, local.selected_category)]_vars

\* a submit for Snacks has returned success: the sink holds the row of Chips,
\* then the row of Cola, each with its own quantity
C13_Witness ==
    /\ pc = "idle"
    /\ displayed
    /\ status = Submitted(PyStr("Snacks"), PyStr("Metro"))[1]
    /\ Len(sink) = 2
    /\ Cell(sink[1], "Product") = PyStr("Chips")
    /\ Cell(sink[2], "Product") = PyStr("Cola")
    /\ Cell(sink[1], "Quantity") = PyInt(0)
    /\ Cell(sink[2], "Quantity") = PyInt(1)

----------------------------------------------------------------------------
(* C14 *)

\* the quantity the layout holds for a product: the value of the input whose
\* id has this product as index, 0 when that input is blank or not rendered
HeldFor(product_name) ==
    IF \E h \in 1..Len(Rows(product_inputs)) :
           Rows(product_inputs)[h].index = product_name
    THEN LET h == CHOOSE k \in 1..Len(Rows(product_inputs)) :
                      Rows(product_inputs)[k].index = product_name
         IN  IF IsNone(Rows(product_inputs)[h].value) THEN PyInt(0)
             ELSE Rows(product_inputs)[h].value
    ELSE PyInt(0)

\* C14: in every record submit_data has built, Quantity is the value held by
\* the input whose identity is the record's Product (0 if blank), also when
\* the handler was called after the category changed and before
\* update_product_inputs re-rendered the inputs.
C14_QuantityIsThatOfItsInput ==
    pc # "idle" =>
        \A i \in 1..Len(local.submission_data) :
            local.submission_data[i].Quantity
                = HeldFor(local.submission_data[i].Product)

----------------------------------------------------------------------------
(* C15 *)

\* C15: when submit_data is called on a settled layout (the lines are those of
\* the selected category and update_total_amount has run on the quantities
\* they hold), the amount every line shows is the Amount of the record built
\* for that line's product.
C15_ShownAmountIsRecordedAmount ==
    (pc # "idle" /\ ~catTriggered /\ ~totTriggered) =>
        \A i \in 1..Len(local.submission_data) :
            /\ i <= Len(Rows(product_inputs))
            /\ Rows(product_inputs)[i].index = local.submission_data[i].Product
            /\ Rows(product_inputs)[i].total
                   = Money("Rs", local.submission_data[i].Amount.int)

----------------------------------------------------------------------------
(* C16 *)

\* C16: the geolocation store holds no value or the text "0,0", and every row
\* of the sink, like every record a running handler has built, has Latitude
\* "0" and Longitude "0".
C16_StoreIsZeroZero ==
    /\ geolocation \in {None, Text(<<"0", ",", "0">>)}
    /\ \A i \in 1..Len(sink) :
           /\ Cell(sink[i], "Latitude") = Text(<<"0">>)
           /\ Cell(sink[i], "Longitude") = Text(<<"0">>)
    /\ pc # "idle" =>
           \A i \in 1..Len(local.submission_data) :
               /\ local.submission_data[i].Latitude = Text(<<"0">>)
               /\ local.submission_data[i].Longitude = Text(<<"0">>)

\* two submits for Dairy have appended a row each, the second one called when
\* the store held "0,0" after both clicks were answered by the function
C16_Witness ==
    /\ pc = "idle"
    /\ Clicks = 2
    /\ ~geoTriggered
    /\ geolocation = Text(<<"0", ",", "0">>)
    /\ Len(sink) = 2
    /\ Cell(sink[1], "Product") = PyStr("Milk")
    /\ Cell(sink[2], "Product") = PyStr("Milk")
    /\ Cell(sink[2], "Latitude") = Text(<<"0">>)

----------------------------------------------------------------------------
(* C17 *)

\* C17: a call of submit_data with a retailer whose salesperson is shown and a
\* category without products in the catalog passes the checks with an empty
\* list of products; that handler builds no record and appends no row, and
\* once the worksheet is open it returns the success message with the dialog
\* displayed (it fails only when the worksheet cannot be opened).
C17_EmptyCategorySucceeds ==
    [][/\ (/\ EnterStep
           /\ Truthy(retailer) /\ IsList(salesperson_info)
           /\ Truthy(category) /\ ProductsOf(category) = {}) =>
              /\ pc' = "build"
              /\ local'.filtered_products = <<>>
              /\ local'.submission_data = <<>>
       /\ (pc # "idle" /\ local.filtered_products = <<>>) =>
              /\ sink' = sink
              /\ local.submission_data = <<>>
              /\ pc = "build" => pc' \in {"append", "idle"}
              /\ pc = "append" =>
                     /\ pc' = "idle"
                     /\ displayed'
                     /\ status' = Submitted(local.selected_category,
                                            local.selected_retailer)[1]]_vars

\* a submit for Frozen, which has no product, has returned success and the
\* sink is empty
C17_Witness ==
    /\ pc = "idle"
    /\ displayed
    /\ status = Submitted(PyStr("Frozen"), PyStr("Metro"))[1]
    /\ category = PyStr("Frozen")
    /\ Clicks = 1
    /\ sink = <<>>

====
